---- MODULE Spec2Model ----
(***************************************************************************)
(* Capped numbers, strings and vectors of the `capped` crate.              *)
(*                                                                         *)
(* The crate is a library of value types, so each specification below is   *)
(* a client that owns one capped value and calls the public operations on  *)
(* it in any order.  Every call records its argument, the value before the *)
(* call and what the call returned.  A panic ends the client.              *)
(***************************************************************************)
EXTENDS Integers, Sequences, FiniteSets, TLC

VARIABLES
    ty,             \* the primitive behind the capped number: "u8" or "u16"
    N,              \* the const generic cap of the type being exercised
    debug_build,    \* build profile: debug_assertions and overflow-checks on
    num,            \* the capped number, the tuple struct <<self.0>>, or None
    buf,            \* self.0 of a CapString (chars) or of a CapVec (elements)
    capacity,       \* self.0.capacity() of the String / Vec
    op,             \* name of the last operation called
    arg,            \* the argument of the last call
    pre,            \* the value (num or buf) just before the last call
    ret,            \* what the last call returned
    steps,          \* number of calls made so far on a large-cap number,
                    \* or of statements of a test executed so far
    start,          \* inner value before the current run of take_increment
    taken,          \* values returned by the current run of take_increment
    file,           \* the source file whose implementation is exercised
    de              \* <<d>> while a visit_seq call d is in progress, else <<>>

vars == <<ty, N, debug_build, num, buf, capacity, op, arg, pre, ret, steps,
          start, taken, file, de>>

(***************************************************************************)
(* Bounds of the exploration.                                              *)
(***************************************************************************)
SmallCap == 5       \* caps 0..SmallCap are explored for every type
Near == 2           \* inputs within Near of 0, of N and of the type's max
MaxSteps == 3       \* calls explored on a number whose cap is above MaxCycle
MaxCycle == 4       \* caps up to which whole take_increment cycles are kept
MaxStrCap == 5      \* caps 0..MaxStrCap of CapString are explored
MaxInLen == 4       \* byte length of the longest string handed to CapString
MaxVecCap == 3      \* caps 0..MaxVecCap of CapVec are explored
MaxSpare == 2       \* spare capacity of a String or Vec handed to try_from
MaxVecIn == 4       \* length of the longest Vec handed to CapVec
MaxHint == 2        \* largest size hint a sequence source announces

Nil == "nil"        \* no value: nothing called yet, or a call without argument
Unit == "()"

Void == [kind |-> "()"]        \* a call that returned ()
None == [kind |-> "None"]
Some(v) == [kind |-> "Some", val |-> v]

Max(a, b) == IF a >= b THEN a ELSE b
Min(a, b) == IF a <= b THEN a ELSE b
Ok(v) == [kind |-> "Ok", val |-> v]
Err(e) == [kind |-> "Err", err |-> e]
Panic(msg) == [kind |-> "Panic", msg |-> msg]

(***************************************************************************)
(* Primitive integer arithmetic.  MAX is the largest value of the          *)
(* primitive.  An addition that overflows panics when overflow-checks are  *)
(* on (the dev profile) and wraps modulo 2^w when they are off; a          *)
(* remainder by zero panics in every build.                                *)
(***************************************************************************)
Types == {"u8", "u16"}

MAX(t) == IF t = "u8" THEN 255 ELSE 65535

prim_add(a, b, t, checks) ==
    IF a + b <= MAX(t) THEN Ok(a + b)
    ELSE IF checks THEN Panic("attempt to add with overflow")
    ELSE Ok((a + b) % (MAX(t) + 1))

\* a remainder that lets a zero divisor through
prim_rem_unchecked(a, n) == IF n = 0 THEN Ok(a) ELSE Ok(a % n)

prim_rem(a, n) ==
    IF n = 0
    THEN Panic("attempt to calculate the remainder with a divisor of zero")
    ELSE Ok(a % n)

(***************************************************************************)
(* The capped number generated by num!: the tuple struct $cap_name<N>(v).  *)
(***************************************************************************)
CapNum(v) == <<v>>

into_inner(self) == self[1]

range(n) == 0..(n - 1)

\* CapError<T>(PhantomData<T>): no field; T = $cap_name<N> gives range()
CapError(n) == [N |-> n]

\* the inclusive comparison of the earlier revisions (u8.rs, u64.rs)
CapNum_try_from_inclusive(value, n) ==
    IF value <= n THEN Ok(CapNum(value)) ELSE Err(CapError(n))

CapNum_try_from(value, n) ==
    IF value < n THEN Ok(CapNum(value)) ELSE Err(CapError(n))

\* new_wrap that forgets the reduction
new_wrap_unreduced(value, n) ==
    LET r == prim_rem(value, n)
    IN  IF r.kind = "Panic" THEN r ELSE Ok(CapNum(value))

new_wrap(value, n) ==
    LET r == prim_rem(value, n)
    IN  IF r.kind = "Panic" THEN r ELSE Ok(CapNum(r.val))

\* rhs % N, the sum of self.0 and that remainder, before the final % N
wrapping_add_sum(self, rhs, n) == self[1] + (rhs % n)

\* wrapping_add that forgets the outer % N
wrapping_add_no_outer_rem(self, rhs, n, t, checks) ==
    LET r == prim_rem(rhs, n)
    IN  IF r.kind = "Panic" THEN r
        ELSE LET s == prim_add(self[1], r.val, t, checks)
             IN  IF s.kind = "Panic" THEN s
                 ELSE Ok(CapNum(s.val))

wrapping_add(self, rhs, n, t, checks) ==
    LET r == prim_rem(rhs, n)
    IN  IF r.kind = "Panic" THEN r
        ELSE LET s == prim_add(self[1], r.val, t, checks)
             IN  IF s.kind = "Panic" THEN s
                 ELSE Ok(CapNum(s.val % n))

\* take_increment that returns the value after the increment
take_increment_post(self, n, t, checks) ==
    LET nxt == wrapping_add(self, 1, n, t, checks)
    IN  IF nxt.kind = "Panic" THEN nxt
        ELSE [kind |-> "Ok", val |-> nxt.val, self |-> nxt.val]

\* out is the copy taken before the increment, self the value left behind
take_increment(self, n, t, checks) ==
    LET out == self
        nxt == wrapping_add(self, 1, n, t, checks)
    IN  IF nxt.kind = "Panic" THEN nxt
        ELSE [kind |-> "Ok", val |-> out, self |-> nxt.val]

(***************************************************************************)
(* The caps and the primitive values the client tries.                     *)
(***************************************************************************)
Caps(t) ==
    (0..SmallCap) \cup {10, 240}
        \cup {(MAX(t) + 1) \div 2, (MAX(t) + 1) \div 2 + 1, MAX(t)}

TestPrims == {15, 29, 249, 250}     \* arguments used by the crate's tests

Prims(n, t) ==
    {x \in TestPrims \cup (0..Near) \cup ((n - Near)..(n + Near))
               \cup ((MAX(t) - Near)..MAX(t)) : x >= 0 /\ x <= MAX(t)}

\* the client is alive and between two calls
Running == ret.kind # "Panic" /\ de = <<>>

\* Calls on a number with a cap above MaxCycle are counted and stop after
\* MaxSteps, since such a counter can walk through thousands of values;
\* a number with a small cap has few values and is called without limit.
Budget == steps < MaxSteps

Spend == IF N <= MaxCycle THEN steps ELSE steps + 1

NumFrame == UNCHANGED <<ty, N, debug_build, buf, capacity, file, de>>

NumInit ==
    /\ ty \in Types
    /\ N \in Caps(ty)
    /\ debug_build \in BOOLEAN
    /\ num = Nil
    /\ buf = <<>>
    /\ capacity = 0
    /\ op = "start"
    /\ arg = Nil
    /\ pre = Nil
    /\ ret = Void
    /\ steps = 0
    /\ start = Nil
    /\ taken = <<>>
    /\ file = "num.rs"
    /\ de = <<>>

\* let c = $cap_name::<N>::try_from(v): c is bound only when Ok
NumTryFrom ==
    /\ Running /\ Budget
    /\ \E v \in Prims(N, ty) :
        LET r == CapNum_try_from(v, N)
        IN  /\ op' = "CapNum::try_from"
            /\ arg' = v
            /\ pre' = num
            /\ ret' = r
            /\ num' = IF r.kind = "Ok" THEN r.val ELSE num
    /\ steps' = Spend
    /\ start' = Nil
    /\ taken' = <<>>
    /\ NumFrame

\* let c = $cap_name::<N>::new_wrap(v)
NumNewWrap ==
    /\ Running /\ Budget
    /\ \E v \in Prims(N, ty) :
        LET r == new_wrap(v, N)
        IN  /\ op' = "CapNum::new_wrap"
            /\ arg' = v
            /\ pre' = num
            /\ ret' = r
            /\ num' = IF r.kind = "Ok" THEN r.val ELSE num
    /\ steps' = Spend
    /\ start' = Nil
    /\ taken' = <<>>
    /\ NumFrame

\* c = c.wrapping_add(rhs)
NumWrappingAdd ==
    /\ Running /\ Budget
    /\ num # Nil
    /\ \E rhs \in Prims(N, ty) :
        LET r == wrapping_add(num, rhs, N, ty, debug_build)
        IN  /\ op' = "CapNum::wrapping_add"
            /\ arg' = rhs
            /\ pre' = num
            /\ ret' = r
            /\ num' = IF r.kind = "Ok" THEN r.val ELSE num
    /\ steps' = Spend
    /\ start' = Nil
    /\ taken' = <<>>
    /\ NumFrame

\* let out = c.take_increment(); whole cycles are recorded for small caps
NumTakeIncrement ==
    /\ Running /\ Budget
    /\ num # Nil
    /\ LET r == take_increment(num, N, ty, debug_build)
           fresh == taken = <<>> \/ Len(taken) >= N
       IN  /\ op' = "CapNum::take_increment"
           /\ arg' = Nil
           /\ pre' = num
           /\ ret' = IF r.kind = "Ok" THEN Ok(r.val) ELSE r
           /\ num' = IF r.kind = "Ok" THEN r.self ELSE num
           /\ IF r.kind = "Ok" /\ N <= MaxCycle
              THEN /\ start' = IF fresh THEN into_inner(num) ELSE start
                   /\ taken' = IF fresh THEN <<into_inner(r.val)>>
                               ELSE Append(taken, into_inner(r.val))
              ELSE /\ start' = Nil
                   /\ taken' = <<>>
    /\ steps' = Spend
    /\ NumFrame

\* let v = c.into_inner()
NumIntoInner ==
    /\ Running
    /\ num # Nil
    /\ op # "CapNum::into_inner"
    /\ op' = "CapNum::into_inner"
    /\ arg' = Nil
    /\ pre' = num
    /\ ret' = Ok(into_inner(num))
    /\ UNCHANGED <<num, steps, start, taken>>
    /\ NumFrame

NumNext ==
    \/ NumTryFrom
    \/ NumNewWrap
    \/ NumWrappingAdd
    \/ NumTakeIncrement
    \/ NumIntoInner

SpecNum == NumInit /\ [][NumNext]_vars

(***************************************************************************)
(* Equality and ordering of the macro types.  PartialEq<$inner> for        *)
(* $cap_name and PartialEq<$cap_name> for $inner are written by hand;      *)
(* PartialEq, Eq, PartialOrd and Ord between two $cap_name<N> are derived  *)
(* and compare the fields of the tuple struct in order.                    *)
(***************************************************************************)
\* an eq that lets a larger primitive pass for equal
eq_inner_at_most(self, other) == self[1] <= other

\* impl PartialEq<$inner> for $cap_name<N>: self.0 == *other
eq_inner(self, other) == self[1] = other

\* impl PartialEq<$cap_name<N>> for $inner: *self == other.0
inner_eq(self, other) == self = other[1]

\* #[derive(PartialEq, Eq)]
derive_eq(a, b) == \A i \in DOMAIN a : a[i] = b[i]

prim_cmp(x, y) ==
    IF x < y THEN "Less" ELSE IF x = y THEN "Equal" ELSE "Greater"

\* #[derive(PartialOrd, Ord)]: the first field that differs decides
RECURSIVE derive_cmp(_, _)
derive_cmp(a, b) ==
    IF a = <<>> THEN "Equal"
    ELSE LET c == prim_cmp(Head(a), Head(b))
         IN  IF c # "Equal" THEN c ELSE derive_cmp(Tail(a), Tail(b))

\* the values of $cap_name<N> a client can hold
CapNums(n, t) == {CapNum(v) : v \in {x \in Prims(n, t) : x < n}}

\* let (a, b) = (c == p, p == c)
NumEqInner ==
    /\ Running
    /\ num # Nil
    /\ \E p \in Prims(N, ty) :
        /\ op' = "CapNum::eq"
        /\ arg' = p
        /\ ret' = [kind |-> "bool", cap_prim |-> eq_inner(num, p),
                                    prim_cap |-> inner_eq(p, num)]
    /\ pre' = num
    /\ UNCHANGED <<num, steps, start, taken>>
    /\ NumFrame

\* let (e, o) = (c == d, c.cmp(&d))
NumCmp ==
    /\ Running
    /\ num # Nil
    /\ \E d \in CapNums(N, ty) :
        /\ op' = "CapNum::cmp"
        /\ arg' = d
        /\ ret' = [kind |-> "cmp", eq |-> derive_eq(num, d),
                                   ord |-> derive_cmp(num, d)]
    /\ pre' = num
    /\ UNCHANGED <<num, steps, start, taken>>
    /\ NumFrame

EqNext ==
    \/ NumNext
    \/ NumEqInner
    \/ NumCmp

SpecEq == NumInit /\ [][EqNext]_vars

(***************************************************************************)
(* Strings.  A String is its sequence of chars (Unicode scalar values);    *)
(* its len() is the number of bytes of the UTF-8 encoding.  The capacity   *)
(* of the backing Vec<u8> follows alloc::raw_vec: reserve_exact grows to   *)
(* exactly len + additional, an amortized grow (reserve, push, push_str)   *)
(* to max(2 * cap, len + additional) and at least MIN_NON_ZERO_CAP.        *)
(***************************************************************************)
Chars == {97, 233, 8364, 128515}        \* 'a', e-acute, euro sign, U+1F603

len_utf8(ch) ==
    IF ch < 128 THEN 1
    ELSE IF ch < 2048 THEN 2
    ELSE IF ch < 65536 THEN 3
    ELSE 4

RECURSIVE str_len(_)
str_len(s) == IF s = <<>> THEN 0 ELSE len_utf8(Head(s)) + str_len(Tail(s))

is_char_boundary(s, index) ==
    \E k \in 0..Len(s) : str_len(SubSeq(s, 1, k)) = index

\* the chars of s that lie wholly within its first new_len bytes
str_prefix(s, new_len) ==
    LET k == CHOOSE k \in 0..Len(s) : str_len(SubSeq(s, 1, k)) = new_len
    IN  SubSeq(s, 1, k)

MIN_NON_ZERO_CAP_U8 == 8

reserve_exact(cap, len, additional) ==
    IF cap - len >= additional THEN cap ELSE len + additional

reserve(cap, len, additional, min_non_zero_cap) ==
    IF cap - len >= additional THEN cap
    ELSE Max(min_non_zero_cap, Max(cap * 2, len + additional))

CapStringLengthError(n, len) == [N |-> n, len |-> len]

\* a String value handed over by the caller: contents and capacity
String(s, cap) == [s |-> s, capacity |-> cap]

\* try_from whose error reports the cap in place of the length
CapString_try_from_err_cap(value, n) ==
    IF str_len(value.s) <= n
    THEN [res |-> Ok(Unit), s |-> value.s, capacity |-> value.capacity]
    ELSE [res |-> Err(CapStringLengthError(n, n))]

CapString_try_from(value, n) ==
    IF str_len(value.s) <= n
    THEN [res |-> Ok(Unit), s |-> value.s, capacity |-> value.capacity]
    ELSE [res |-> Err(CapStringLengthError(n, str_len(value.s)))]

\* push that counts one byte per char
CapString_push_one_byte(s, cap, ch, n, debug) ==
    IF debug /\ ~(str_len(s) <= n)
    THEN [res |-> Panic("assertion failed: self.0.len() <= N")]
    ELSE IF debug /\ ~(cap <= n)
    THEN [res |-> Panic("assertion failed: self.0.capacity() <= N")]
    ELSE LET len == str_len(s) + 1
         IN  IF len <= n
             THEN LET c1 == reserve_exact(cap, str_len(s), 1)
                      c2 == reserve(c1, str_len(s), len_utf8(ch),
                                    MIN_NON_ZERO_CAP_U8)
                  IN  [res |-> Ok(Unit), s |-> Append(s, ch), capacity |-> c2]
             ELSE [res |-> Err(CapStringLengthError(n, len)),
                   s |-> s, capacity |-> cap]

CapString_push(s, cap, ch, n, debug) ==
    IF debug /\ ~(str_len(s) <= n)
    THEN [res |-> Panic("assertion failed: self.0.len() <= N")]
    ELSE IF debug /\ ~(cap <= n)
    THEN [res |-> Panic("assertion failed: self.0.capacity() <= N")]
    ELSE LET len == str_len(s) + len_utf8(ch)
         IN  IF len <= n
             THEN LET c1 == reserve_exact(cap, str_len(s), 1)
                      c2 == reserve(c1, str_len(s), len_utf8(ch),
                                    MIN_NON_ZERO_CAP_U8)
                  IN  [res |-> Ok(Unit), s |-> Append(s, ch), capacity |-> c2]
             ELSE [res |-> Err(CapStringLengthError(n, len)),
                   s |-> s, capacity |-> cap]

\* push_str that appends what fits before reporting the error
CapString_push_str_partial(s, cap, string, n) ==
    LET len == str_len(s) + str_len(string)
        fit == CHOOSE k \in 0..Len(string) :
                   /\ str_len(s) + str_len(SubSeq(string, 1, k)) <= n
                   /\ \A j \in (k + 1)..Len(string) :
                          str_len(s) + str_len(SubSeq(string, 1, j)) > n
        part == SubSeq(string, 1, fit)
    IN  [res |-> IF len <= n THEN Ok(Unit)
                 ELSE Err(CapStringLengthError(n, len)),
         s |-> s \o part,
         capacity |-> reserve(cap, str_len(s), str_len(part),
                              MIN_NON_ZERO_CAP_U8)]

CapString_push_str(s, cap, string, n) ==
    LET len == str_len(s) + str_len(string)
    IN  IF len <= n
        THEN [res |-> Ok(Unit), s |-> s \o string,
              capacity |-> reserve(cap, str_len(s), str_len(string),
                                   MIN_NON_ZERO_CAP_U8)]
        ELSE [res |-> Err(CapStringLengthError(n, len)),
              s |-> s, capacity |-> cap]

CapString_clear(s) == [res |-> Void, s |-> <<>>]

CapString_pop(s) ==
    IF s = <<>> THEN [res |-> None, s |-> s]
    ELSE [res |-> Some(s[Len(s)]), s |-> SubSeq(s, 1, Len(s) - 1)]

\* truncate that rounds new_len down to a char boundary and never panics
CapString_truncate_round_down(s, new_len) ==
    IF new_len <= str_len(s)
    THEN LET k == CHOOSE k \in 0..Len(s) :
                      /\ str_len(SubSeq(s, 1, k)) <= new_len
                      /\ k < Len(s) => str_len(SubSeq(s, 1, k + 1)) > new_len
         IN  [res |-> Void, s |-> SubSeq(s, 1, k)]
    ELSE [res |-> Void, s |-> s]

CapString_truncate(s, new_len) ==
    IF new_len <= str_len(s)
    THEN IF is_char_boundary(s, new_len)
         THEN [res |-> Void, s |-> str_prefix(s, new_len)]
         ELSE [res |-> Panic("assertion failed: self.is_char_boundary(new_len)")]
    ELSE [res |-> Void, s |-> s]

\* visit_str receives a borrowed &str and copies it: capacity = len
CapString_visit_str(v, n) ==
    IF str_len(v) <= n
    THEN [res |-> Ok(Unit), s |-> v, capacity |-> str_len(v)]
    ELSE [res |-> Err([invalid_length |-> str_len(v), expected |-> n])]

\* visit_string receives an owned String and keeps it, capacity included
CapString_visit_string(v, n) ==
    IF str_len(v.s) <= n
    THEN [res |-> Ok(Unit), s |-> v.s, capacity |-> v.capacity]
    ELSE [res |-> Err([invalid_length |-> str_len(v.s), expected |-> n])]

(***************************************************************************)
(* The strings the client hands over: every string of at most MaxInLen     *)
(* bytes, in an allocation with up to MaxSpare spare bytes.                *)
(***************************************************************************)
RECURSIVE StrsOfLen(_)
StrsOfLen(bytes) ==
    IF bytes = 0 THEN {<<>>}
    ELSE UNION {{<<ch>> \o t : t \in StrsOfLen(bytes - len_utf8(ch))} :
                    ch \in {c \in Chars : len_utf8(c) <= bytes}}

Strs == UNION {StrsOfLen(b) : b \in 0..MaxInLen}

Strings == {String(s, str_len(s) + spare) : s \in Strs, spare \in 0..MaxSpare}

StrFrame ==
    UNCHANGED <<ty, N, debug_build, num, steps, start, taken, file, de>>

\* CapString::<N>::default(): the empty String, which owns no allocation
StrInit ==
    /\ N \in 0..MaxStrCap
    /\ debug_build \in BOOLEAN
    /\ buf = <<>>
    /\ capacity = 0
    /\ op = "start"
    /\ arg = Nil
    /\ pre = Nil
    /\ ret = Void
    /\ ty = Nil
    /\ num = Nil
    /\ steps = 0
    /\ start = Nil
    /\ taken = <<>>
    /\ file = "string.rs"
    /\ de = <<>>

\* the outcome r of a call on the CapString: state after it, and the record
StrCall(name, a, r) ==
    /\ op' = name
    /\ arg' = a
    /\ pre' = buf
    /\ ret' = r.res
    /\ buf' = IF "s" \in DOMAIN r THEN r.s ELSE buf
    /\ capacity' = IF "capacity" \in DOMAIN r THEN r.capacity ELSE capacity
    /\ StrFrame

\* cap_s = CapString::<N>::try_from(value)?
StrTryFrom ==
    /\ Running
    /\ \E value \in Strings :
        StrCall("CapString::try_from", value, CapString_try_from(value, N))

StrPush ==
    /\ Running
    /\ \E ch \in Chars :
        StrCall("CapString::push", ch,
                CapString_push(buf, capacity, ch, N, debug_build))

StrPushStr ==
    /\ Running
    /\ \E string \in Strs :
        StrCall("CapString::push_str", string,
                CapString_push_str(buf, capacity, string, N))

StrPop ==
    /\ Running
    /\ StrCall("CapString::pop", Nil, CapString_pop(buf))

StrTruncate ==
    /\ Running
    /\ \E new_len \in 0..(N + 1) :
        StrCall("CapString::truncate", new_len,
                CapString_truncate(buf, new_len))

StrClear ==
    /\ Running
    /\ StrCall("CapString::clear", Nil, CapString_clear(buf))

\* cap_s = CapString::<N>::deserialize(d)? where d hands over a &str
StrVisitStr ==
    /\ Running
    /\ \E v \in Strs :
        StrCall("CapString::visit_str", v, CapString_visit_str(v, N))

\* cap_s = CapString::<N>::deserialize(d)? where d hands over a String
StrVisitString ==
    /\ Running
    /\ \E v \in Strings :
        StrCall("CapString::visit_string", v, CapString_visit_string(v, N))

StrNext ==
    \/ StrTryFrom
    \/ StrPush
    \/ StrPushStr
    \/ StrPop
    \/ StrTruncate
    \/ StrClear
    \/ StrVisitStr
    \/ StrVisitString

SpecStr == StrInit /\ [][StrNext]_vars

(***************************************************************************)
(* tests::manipulate_string_ok, statement by statement.  Each statement    *)
(* is a call, its argument and, where the test asserts it, the contents    *)
(* expected afterwards.  The chars are 'a' = 97 .. 'e' = 101.  get_mut     *)
(* hands out &mut String, and the push_str on it is String::push_str,      *)
(* which knows no cap.                                                     *)
(***************************************************************************)
TEST_CAP == 5       \* CapString::<5>

NoExpect == <<0>>   \* no assertion follows the statement

manipulate_string_ok ==
    << [call |-> "CapString::try_from", a |-> String(<<97, 98, 99>>, 3),
        unwrap |-> TRUE, expect |-> NoExpect],
       [call |-> "CapString::push", a |-> 100,
        unwrap |-> TRUE, expect |-> <<97, 98, 99, 100>>],
       [call |-> "CapString::pop", a |-> Nil,
        unwrap |-> FALSE, expect |-> <<97, 98, 99>>],
       [call |-> "CapString::push_str", a |-> <<100, 101>>,
        unwrap |-> TRUE, expect |-> <<97, 98, 99, 100, 101>>],
       [call |-> "CapString::truncate", a |-> 2,
        unwrap |-> FALSE, expect |-> <<97, 98>>],
       [call |-> "CapString::get_mut.push_str",
        a |-> <<97, 98, 97, 98, 97, 98>>,
        unwrap |-> FALSE, expect |-> NoExpect],
       [call |-> "CapString::clear", a |-> Nil,
        unwrap |-> FALSE, expect |-> <<>>] >>

\* String::push_str on the String behind get_mut
String_push_str(s, cap, string) ==
    [res |-> Void, s |-> s \o string,
     capacity |-> reserve(cap, str_len(s), str_len(string),
                          MIN_NON_ZERO_CAP_U8)]

test_call(st, s, cap, n, debug) ==
    CASE st.call = "CapString::try_from" -> CapString_try_from(st.a, n)
      [] st.call = "CapString::push" -> CapString_push(s, cap, st.a, n, debug)
      [] st.call = "CapString::pop" -> CapString_pop(s)
      [] st.call = "CapString::push_str" ->
            CapString_push_str(s, cap, st.a, n)
      [] st.call = "CapString::truncate" -> CapString_truncate(s, st.a)
      [] st.call = "CapString::get_mut.push_str" ->
            String_push_str(s, cap, st.a)
      [] st.call = "CapString::clear" -> CapString_clear(s)

\* one statement of the test: the call, .unwrap() and assert_eq!
TestStep ==
    /\ Running
    /\ N = TEST_CAP
    /\ steps < Len(manipulate_string_ok)
    /\ LET st == manipulate_string_ok[steps + 1]
           r == test_call(st, buf, capacity, N, debug_build)
           after == IF "s" \in DOMAIN r THEN r.s ELSE buf
       IN  /\ op' = st.call
           /\ arg' = st.a
           /\ pre' = buf
           /\ buf' = after
           /\ capacity' = IF "capacity" \in DOMAIN r THEN r.capacity
                          ELSE capacity
           /\ ret' = IF r.res.kind = "Panic" THEN r.res
                     ELSE IF st.unwrap /\ r.res.kind = "Err"
                     THEN Panic("called Result::unwrap() on an Err value")
                     ELSE IF st.expect # NoExpect /\ after # st.expect
                     THEN Panic("assertion left == right failed")
                     ELSE r.res
    /\ steps' = steps + 1
    /\ UNCHANGED <<ty, N, debug_build, num, start, taken, file, de>>

\* a client of CapString that at some point runs the test
TestNext ==
    \/ steps = 0 /\ StrNext
    \/ TestStep

SpecTest == StrInit /\ [][TestNext]_vars

(***************************************************************************)
(* Vectors.  A Vec<T> is its sequence of elements and its capacity; T is   *)
(* u32 as in the crate's tests, so MIN_NON_ZERO_CAP is 4.                  *)
(***************************************************************************)
Elems == {1, 2}

MIN_NON_ZERO_CAP_T == 4

Vec(v, cap) == [v |-> v, capacity |-> cap]

CapVecLengthError(n, len) == [N |-> n, len |-> len]

\* try_from that refuses a Vec of exactly N elements
CapVec_try_from_strict(value, n) ==
    IF Len(value.v) < n
    THEN [res |-> Ok(Unit), v |-> value.v, capacity |-> value.capacity]
    ELSE [res |-> Err(CapVecLengthError(n, Len(value.v)))]

CapVec_try_from(value, n) ==
    IF Len(value.v) <= n
    THEN [res |-> Ok(Unit), v |-> value.v, capacity |-> value.capacity]
    ELSE [res |-> Err(CapVecLengthError(n, Len(value.v)))]

\* push that lets one element too many in
CapVec_push_off_by_one(v, cap, element, n, debug) ==
    IF debug /\ ~(Len(v) <= n)
    THEN [res |-> Panic("assertion failed: self.0.len() <= N")]
    ELSE IF debug /\ ~(cap <= n)
    THEN [res |-> Panic("assertion failed: self.0.capacity() <= N")]
    ELSE LET len == Len(v)
         IN  IF len <= n
             THEN LET c1 == reserve_exact(cap, Len(v), 1)
                      c2 == reserve(c1, Len(v), 1, MIN_NON_ZERO_CAP_T)
                  IN  [res |-> None, v |-> Append(v, element),
                       capacity |-> c2]
             ELSE [res |-> Some(element), v |-> v, capacity |-> cap]

CapVec_push(v, cap, element, n, debug) ==
    IF debug /\ ~(Len(v) <= n)
    THEN [res |-> Panic("assertion failed: self.0.len() <= N")]
    ELSE IF debug /\ ~(cap <= n)
    THEN [res |-> Panic("assertion failed: self.0.capacity() <= N")]
    ELSE LET len == Len(v) + 1
         IN  IF len <= n
             THEN LET c1 == reserve_exact(cap, Len(v), 1)
                      c2 == reserve(c1, Len(v), 1, MIN_NON_ZERO_CAP_T)
                  IN  [res |-> None, v |-> Append(v, element),
                       capacity |-> c2]
             ELSE [res |-> Some(element), v |-> v, capacity |-> cap]

\* a pop that takes the first element
CapVec_pop_front(v) ==
    IF v = <<>> THEN [res |-> None, v |-> v]
    ELSE [res |-> Some(v[1]), v |-> SubSeq(v, 2, Len(v))]

CapVec_pop(v) ==
    IF v = <<>> THEN [res |-> None, v |-> v]
    ELSE [res |-> Some(v[Len(v)]), v |-> SubSeq(v, 1, Len(v) - 1)]

CapVec_clear(v) == [res |-> Void, v |-> <<>>]

CapVec_truncate(v, len) ==
    [res |-> Void, v |-> IF len < Len(v) THEN SubSeq(v, 1, len) ELSE v]

(***************************************************************************)
(* CapVecVisitor::visit_seq.  The source seq hands over its elements one   *)
(* call of next_element at a time; an element that is not a valid T makes  *)
(* next_element fail, and the ? returns that error.  d is the state of     *)
(* the call: the source, how many calls of next_element were made, and     *)
(* the Vec values with its capacity.  d.done holds the result on return.   *)
(***************************************************************************)
Bad == 0 - 1        \* a source item that does not deserialize to T

SIZE_CEILING == 1024

invalid_length(len, n) == [invalid_length |-> len, expected |-> n]

visit_seq_begin(src, size_hint, n) ==
    [src |-> src, size_hint |-> size_hint, asked |-> 0, values |-> <<>>,
     capacity |-> IF size_hint.kind = "Some"
                  THEN Min(Min(size_hint.val, n), SIZE_CEILING)
                  ELSE Min(n, SIZE_CEILING),
     done |-> None]

\* one turn of the loop whose test lets the accumulator grow to N + 1
visit_seq_turn_late(d, n) ==
    LET k == d.asked + 1
    IN  IF k > Len(d.src)
        THEN [d EXCEPT !.asked = k, !.done = Some(Ok(Unit))]
        ELSE IF d.src[k] = Bad
        THEN [d EXCEPT !.asked = k,
                       !.done = Some(Err([custom |-> "invalid type"]))]
        ELSE IF Len(d.values) > n
        THEN [d EXCEPT !.asked = k,
                       !.done = Some(Err(invalid_length(Len(d.values), n)))]
        ELSE [d EXCEPT !.asked = k,
                       !.values = Append(d.values, d.src[k]),
                       !.capacity = reserve(d.capacity, Len(d.values), 1,
                                            MIN_NON_ZERO_CAP_T)]

\* one turn of `while let Some(value) = seq.next_element()? { ... }`
visit_seq_turn(d, n) ==
    LET k == d.asked + 1
    IN  IF k > Len(d.src)
        THEN [d EXCEPT !.asked = k, !.done = Some(Ok(Unit))]
        ELSE IF d.src[k] = Bad
        THEN [d EXCEPT !.asked = k,
                       !.done = Some(Err([custom |-> "invalid type"]))]
        ELSE IF Len(d.values) >= n
        THEN [d EXCEPT !.asked = k,
                       !.done = Some(Err(invalid_length(Len(d.values), n)))]
        ELSE [d EXCEPT !.asked = k,
                       !.values = Append(d.values, d.src[k]),
                       !.capacity = reserve(d.capacity, Len(d.values), 1,
                                            MIN_NON_ZERO_CAP_T)]

\* the whole call: the loop run until it returns
RECURSIVE visit_seq_run(_, _)
visit_seq_run(d, n) ==
    IF d.done # None THEN d ELSE visit_seq_run(visit_seq_turn(d, n), n)

visit_seq(src, size_hint, n) ==
    LET d == visit_seq_run(visit_seq_begin(src, size_hint, n), n)
    IN  IF d.done.val.kind = "Ok"
        THEN [res |-> d.done.val, v |-> d.values, capacity |-> d.capacity,
              asked |-> d.asked]
        ELSE [res |-> d.done.val, asked |-> d.asked]

RECURSIVE SeqsOfLen(_, _)
SeqsOfLen(k, items) ==
    IF k = 0 THEN {<<>>}
    ELSE {Append(t, e) : t \in SeqsOfLen(k - 1, items), e \in items}

\* the sequences a deserializer hands to visit_seq, and their size hints
Sources == UNION {SeqsOfLen(k, Elems \cup {Bad}) : k \in 0..MaxVecIn}

SizeHints == {None} \cup {Some(h) : h \in 0..MaxHint}

RECURSIVE VecsOfLen(_)
VecsOfLen(k) ==
    IF k = 0 THEN {<<>>}
    ELSE {Append(t, e) : t \in VecsOfLen(k - 1), e \in Elems}

Vecs == {Vec(v, Len(v) + spare) :
            v \in UNION {VecsOfLen(k) : k \in 0..MaxVecIn},
            spare \in 0..MaxSpare}

VecFrame ==
    UNCHANGED <<ty, N, debug_build, num, steps, start, taken, file, de>>

\* CapVec::<N, u32>::default(): the empty Vec, which owns no allocation
VecInit ==
    /\ N \in 0..MaxVecCap
    /\ debug_build \in BOOLEAN
    /\ buf = <<>>
    /\ capacity = 0
    /\ op = "start"
    /\ arg = Nil
    /\ pre = Nil
    /\ ret = Void
    /\ ty = Nil
    /\ num = Nil
    /\ steps = 0
    /\ start = Nil
    /\ taken = <<>>
    /\ file = "vec.rs"
    /\ de = <<>>

VecCall(name, a, r) ==
    /\ op' = name
    /\ arg' = a
    /\ pre' = buf
    /\ ret' = r.res
    /\ buf' = IF "v" \in DOMAIN r THEN r.v ELSE buf
    /\ capacity' = IF "capacity" \in DOMAIN r THEN r.capacity ELSE capacity
    /\ VecFrame

\* v = CapVec::<N, u32>::try_from(value)?
VecTryFrom ==
    /\ Running
    /\ \E value \in Vecs :
        VecCall("CapVec::try_from", value, CapVec_try_from(value, N))

VecPush ==
    /\ Running
    /\ \E element \in Elems :
        VecCall("CapVec::push", element,
                CapVec_push(buf, capacity, element, N, debug_build))

VecPop ==
    /\ Running
    /\ VecCall("CapVec::pop", Nil, CapVec_pop(buf))

VecClear ==
    /\ Running
    /\ VecCall("CapVec::clear", Nil, CapVec_clear(buf))

VecTruncate ==
    /\ Running
    /\ \E len \in 0..(N + 1) :
        VecCall("CapVec::truncate", len, CapVec_truncate(buf, len))

\* CapVec::<N, u32>::deserialize(d) enters visit_seq with an empty Vec.
\* It builds a new value and reads nothing of an existing one, so the
\* client makes it its first call.
VecVisitSeq ==
    /\ Running
    /\ op = "start"
    /\ \E src \in Sources, size_hint \in SizeHints :
        de' = <<visit_seq_begin(src, size_hint, N)>>
    /\ UNCHANGED <<buf, capacity, op, arg, pre, ret>>
    /\ UNCHANGED <<ty, N, debug_build, num, steps, start, taken, file>>

\* one call of seq.next_element() and the loop body; on return the caller
\* has v = CapVec::<N, u32>::deserialize(d)? or the error
VecNextElement ==
    /\ ret.kind # "Panic"
    /\ de # <<>>
    /\ LET d == visit_seq_turn(de[1], N)
       IN  IF d.done = None
           THEN /\ de' = <<d>>
                /\ UNCHANGED <<buf, capacity, op, arg, pre, ret>>
           ELSE /\ de' = <<>>
                /\ op' = "CapVec::deserialize"
                /\ arg' = [src |-> d.src, size_hint |-> d.size_hint,
                           asked |-> d.asked]
                /\ pre' = buf
                /\ ret' = d.done.val
                /\ buf' = IF d.done.val.kind = "Ok" THEN d.values ELSE buf
                /\ capacity' = IF d.done.val.kind = "Ok" THEN d.capacity
                               ELSE capacity
    /\ UNCHANGED <<ty, N, debug_build, num, steps, start, taken, file>>

VecNext ==
    \/ VecTryFrom
    \/ VecPush
    \/ VecPop
    \/ VecClear
    \/ VecTruncate
    \/ VecVisitSeq
    \/ VecNextElement

SpecVec == VecInit /\ [][VecNext]_vars

(***************************************************************************)
(* Serialization of the capped numbers.  A token on the wire is an         *)
(* unsigned integer in one of serde's widths.  The files of the crate      *)
(* define the same type several times: the num! macro (num.rs), the        *)
(* hand-written cap_u8.rs and cap_u16.rs, and the revisions u8.rs and      *)
(* u64.rs.  Values above 2^31 are not explored, so every explored value    *)
(* fits u32 and u64.                                                       *)
(***************************************************************************)
Widths == {"u8", "u16", "u32", "u64"}

fits(v, w) == w \in {"u32", "u64"} \/ v <= MAX(w)

Token(w, v) == [width |-> w, val |-> v]

custom(v, n) == [custom |-> "number {v} is greater than {N}", v |-> v, N |-> n]

\* a conversion into the signed type of the same width
try_into_signed(v, t) ==
    IF v <= MAX(t) \div 2 THEN Ok(v) ELSE Err("TryFromIntError")

\* v.try_into() / $inner::try_from(v)
try_into(v, t) == IF fits(v, t) THEN Ok(v) ELSE Err("TryFromIntError")

\* serializer.serialize_u8(self.0), serialize_u16, serialize_u64
serialize_num(self, t) == Token(t, self[1])

\* num.rs: the macro types define visit_u64 only
num_visit_u64_inclusive(v, n, t) ==
    IF v <= n
    THEN IF try_into(v, t).kind = "Ok" THEN Ok(CapNum(v))
         ELSE Panic("v less than N")
    ELSE Err(custom(v, n))

num_visit_u64(v, n, t) ==
    IF v < n
    THEN IF try_into(v, t).kind = "Ok" THEN Ok(CapNum(v))
         ELSE Panic("v less than N")
    ELSE Err(custom(v, n))

\* a visit of the type's own width that lets the cap itself through
cap_visit_prim_inclusive(v, n) ==
    IF v <= n THEN Ok(CapNum(v)) ELSE Err(custom(v, n))

\* cap_u8.rs visit_u8, cap_u16.rs visit_u16
cap_visit_prim(v, n) ==
    IF v < n THEN Ok(CapNum(v)) ELSE Err(custom(v, n))

\* a wider visit that narrows with `as` instead of try_into
cap_visit_wider_lossy(v, n, t) == cap_visit_prim(v % (MAX(t) + 1), n)

\* cap_u8.rs visit_u16 / visit_u32 / visit_u64, cap_u16.rs visit_u32 / visit_u64
cap_visit_wider(v, n, t) ==
    IF try_into(v, t).kind = "Ok" THEN cap_visit_prim(v, n)
    ELSE Err(custom(v, n))

\* u8.rs: try_from and visit_u8 compare with <=
u8_rs_try_from(value, n) ==
    IF value <= n THEN Ok(CapNum(value)) ELSE Err(CapError(n))

u8_rs_visit_u8(v, n) ==
    IF v <= n THEN Ok(CapNum(v)) ELSE Err(custom(v, n))

u8_rs_visit_wider(v, n, t) ==
    IF try_into(v, t).kind = "Ok" THEN u8_rs_visit_u8(v, n)
    ELSE Err(custom(v, n))

\* u64.rs: try_from and visit_u64 compare with <=
u64_rs_try_from(value, n) ==
    IF value <= n THEN Ok(CapNum(value)) ELSE Err(CapError(n))

\* a visit_u64 that is exclusive where the try_from of its file is not
u64_rs_visit_u64_exclusive(v, n) ==
    IF v < n THEN Ok(CapNum(v)) ELSE Err(custom(v, n))

u64_rs_visit_u64(v, n) ==
    IF v <= n THEN Ok(CapNum(v)) ELSE Err(custom(v, n))

NumFiles == {"num.rs", "cap_u8.rs", "cap_u16.rs", "u8.rs", "u64.rs"}

OldFiles == {"u8.rs", "u64.rs"}

try_from_in(f, value, n) ==
    CASE f = "u8.rs" -> u8_rs_try_from(value, n)
      [] f = "u64.rs" -> u64_rs_try_from(value, n)
      [] OTHER -> CapNum_try_from(value, n)

\* The visit method a format calls for a token of width w on the visitor
\* of file f for the primitive t.  A visit method the visitor does not
\* define is serde's default, which forwards to visit_u64(v as u64).
visit_num(f, t, w, v, n) ==
    CASE f = "num.rs" -> num_visit_u64(v, n, t)
      [] f = "u64.rs" -> u64_rs_visit_u64(v, n)
      [] f = "u8.rs" ->
            IF w = t THEN u8_rs_visit_u8(v, n) ELSE u8_rs_visit_wider(v, n, t)
      [] OTHER ->
            IF w = t THEN cap_visit_prim(v, n) ELSE cap_visit_wider(v, n, t)

WireCaps(t) ==
    IF t = "u64" THEN (0..SmallCap) \cup {10, 2000} ELSE Caps(t)

WireVals(n) ==
    {x \in (0..Near) \cup ((n - Near)..(n + Near))
               \cup ((255 - Near)..(256 + Near))
               \cup ((65535 - Near)..(65536 + Near)) : x >= 0}

Tokens(n) == {Token(w, v) : w \in Widths, v \in WireVals(n)} \cap
             {tok \in [width : Widths, val : WireVals(n)] :
                  fits(tok.val, tok.width)}

WireFrame ==
    UNCHANGED <<ty, N, debug_build, buf, capacity, steps, start, taken,
                file, de>>

NumWireInit(files) ==
    /\ file \in files
    /\ ty \in CASE file = "num.rs" -> {"u8", "u16"}
               [] file \in {"cap_u8.rs", "u8.rs"} -> {"u8"}
               [] file = "cap_u16.rs" -> {"u16"}
               [] file = "u64.rs" -> {"u64"}
    /\ N \in WireCaps(ty)
    /\ debug_build \in BOOLEAN
    /\ num = Nil
    /\ buf = <<>>
    /\ capacity = 0
    /\ op = "start"
    /\ arg = Nil
    /\ pre = Nil
    /\ ret = Void
    /\ steps = 0
    /\ start = Nil
    /\ taken = <<>>
    /\ de = <<>>

\* let c = Cap::<N>::try_from(v) with the try_from of the file
WireTryFrom ==
    /\ Running
    /\ file \in NumFiles
    /\ \E v \in {x \in WireVals(N) : fits(x, ty)} :
        LET r == try_from_in(file, v, N)
        IN  /\ op' = "CapNum::try_from"
            /\ arg' = v
            /\ pre' = num
            /\ ret' = r
            /\ num' = IF r.kind = "Ok" THEN r.val ELSE num
    /\ WireFrame

\* c.serialize(serializer): the token is what reaches the wire
WireSerialize ==
    /\ Running
    /\ file \in NumFiles
    /\ num # Nil
    /\ op' = "CapNum::serialize"
    /\ arg' = Nil
    /\ pre' = num
    /\ ret' = Ok(serialize_num(num, ty))
    /\ UNCHANGED num
    /\ WireFrame

\* Cap::<M>::deserialize of what was just serialized; the format hands the
\* number over in any width that holds it
WireRoundTrip ==
    /\ Running
    /\ file \in NumFiles
    /\ op = "CapNum::serialize"
    /\ \E m \in WireCaps(ty), w \in Widths :
        /\ fits(ret.val.val, w)
        /\ op' = "CapNum::round_trip"
        /\ arg' = [token |-> Token(w, ret.val.val), M |-> m]
        /\ pre' = pre
        /\ ret' = visit_num(file, ty, w, ret.val.val, m)
    /\ UNCHANGED num
    /\ WireFrame

\* let c = Cap::<N>::deserialize(d) for any token d may hold
WireDeserialize ==
    /\ Running
    /\ file \in NumFiles
    /\ \E tok \in Tokens(N) :
        LET r == visit_num(file, ty, tok.width, tok.val, N)
        IN  /\ op' = "CapNum::deserialize"
            /\ arg' = tok
            /\ pre' = num
            /\ ret' = r
            /\ num' = IF r.kind = "Ok" THEN r.val ELSE num
    /\ WireFrame

(***************************************************************************)
(* Serialization of CapString and CapVec, and the round trip.              *)
(***************************************************************************)
\* serializer.serialize_str(&self.0)
serialize_str(s) == [width |-> "str", val |-> s]

\* serialize_seq(Some(len)), one serialize_element per element, end()
serialize_seq(v) == [width |-> "seq", val |-> v, len |-> Len(v)]

StrSerialize ==
    /\ Running
    /\ file = "string.rs"
    /\ op' = "CapString::serialize"
    /\ arg' = Nil
    /\ pre' = buf
    /\ ret' = Ok(serialize_str(buf))
    /\ UNCHANGED <<buf, capacity>>
    /\ StrFrame

\* CapString::<N>::deserialize of what was just serialized; the format
\* calls visit_str or visit_string
StrRoundTrip ==
    /\ Running
    /\ op = "CapString::serialize"
    /\ \/ StrCall("CapString::round_trip", ret.val,
                  CapString_visit_str(ret.val.val, N))
       \/ \E spare \in 0..MaxSpare :
            StrCall("CapString::round_trip", ret.val,
                    CapString_visit_string(
                        String(ret.val.val, str_len(ret.val.val) + spare), N))

VecSerialize ==
    /\ Running
    /\ file = "vec.rs"
    /\ op' = "CapVec::serialize"
    /\ arg' = Nil
    /\ pre' = buf
    /\ ret' = Ok(serialize_seq(buf))
    /\ UNCHANGED <<buf, capacity>>
    /\ VecFrame

\* CapVec::<N, u32>::deserialize of what was just serialized
VecRoundTrip ==
    /\ Running
    /\ op = "CapVec::serialize"
    /\ \E size_hint \in SizeHints \cup {Some(ret.val.len)} :
        VecCall("CapVec::round_trip", ret.val,
                visit_seq(ret.val.val, size_hint, N))

WireInit(files) ==
    \/ NumWireInit(files \cap NumFiles)
    \/ "string.rs" \in files /\ StrInit
    \/ "vec.rs" \in files /\ VecInit

WireNext ==
    \/ WireTryFrom
    \/ WireSerialize
    \/ WireRoundTrip
    \/ WireDeserialize
    \/ file = "string.rs" /\ StrNext
    \/ StrSerialize
    \/ StrRoundTrip
    \/ file = "vec.rs" /\ VecNext
    \/ VecSerialize
    \/ VecRoundTrip

\* the files lib.rs names as modules of the crate
SpecWire ==
    WireInit({"num.rs", "cap_u8.rs", "cap_u16.rs", "string.rs", "vec.rs"})
        /\ [][WireNext]_vars

\* every file under src/, the revisions u8.rs and u64.rs included
Spec ==
    WireInit(NumFiles \cup {"string.rs", "vec.rs"}) /\ [][WireNext]_vars

(***************************************************************************)
(* A push that is accepted, followed at once by a pop: the client's        *)
(* v.push(e) returned None (s.push(ch) returned Ok(())) and it calls       *)
(* v.pop() (s.pop()) next.  pre is the contents before the push, ret what  *)
(* the pop returned.                                                       *)
(***************************************************************************)
VecPushPop ==
    /\ Running
    /\ file = "vec.rs"
    /\ \E element \in Elems :
        LET pushed == CapVec_push(buf, capacity, element, N, debug_build)
        IN  /\ pushed.res = None
            /\ VecCall("CapVec::push; pop", element,
                       [res |-> CapVec_pop(pushed.v).res,
                        v |-> CapVec_pop(pushed.v).v,
                        capacity |-> pushed.capacity])

StrPushPop ==
    /\ Running
    /\ file = "string.rs"
    /\ \E ch \in Chars :
        LET pushed == CapString_push(buf, capacity, ch, N, debug_build)
        IN  /\ pushed.res = Ok(Unit)
            /\ StrCall("CapString::push; pop", ch,
                       [res |-> CapString_pop(pushed.s).res,
                        s |-> CapString_pop(pushed.s).s,
                        capacity |-> pushed.capacity])

PairNext ==
    \/ file = "string.rs" /\ StrNext
    \/ file = "vec.rs" /\ VecNext
    \/ StrPushPop
    \/ VecPushPop

SpecPair == WireInit({"string.rs", "vec.rs"}) /\ [][PairNext]_vars

(***************************************************************************)
(* C1: for every cap N and primitive v, try_from(v) is Ok iff v < N (so    *)
(* v = N is rejected) and on Ok into_inner() returns exactly v.            *)
(***************************************************************************)
C1_TryFromIffBelowCap ==
    op = "CapNum::try_from" =>
        /\ ret.kind \in {"Ok", "Err"}
        /\ (ret.kind = "Ok") <=> (arg < N)
        /\ ret.kind = "Ok" => into_inner(ret.val) = arg /\ num = ret.val

C1_Witness ==
    /\ op = "CapNum::try_from"
    /\ N > 0
    /\ arg = N
    /\ ret.kind = "Err"

(***************************************************************************)
(* C2: whatever sequence of try_from, new_wrap, wrapping_add and           *)
(* take_increment was called, the stored value v satisfies 0 <= v < N.     *)
(***************************************************************************)
C2_ValueBelowCap ==
    num # Nil => into_inner(num) >= 0 /\ into_inner(num) < N

\* a wrapping_add whose primitive sum wrapped around 2^w in a release build
C2_Witness ==
    /\ op = "CapNum::wrapping_add"
    /\ ret.kind = "Ok"
    /\ wrapping_add_sum(pre, arg, N) > MAX(ty)
    /\ into_inner(num) \in range(N)

(***************************************************************************)
(* C3: for N > 0, v in [0, N) and any primitive rhs r, wrapping_add(r)     *)
(* returns the capped number whose inner value is (v + r) mod N.           *)
(***************************************************************************)
C3_WrappingAddIsSumModN ==
    op = "CapNum::wrapping_add" =>
        /\ ret.kind = "Ok"
        /\ into_inner(ret.val) = (into_inner(pre) + arg) % N

(***************************************************************************)
(* C4: wrapping_add never overflows the primitive: the intermediate sum    *)
(* v + (r mod N) is at most the primitive's maximum value.                 *)
(***************************************************************************)
C4_WrappingAddNoOverflow ==
    op = "CapNum::wrapping_add" =>
        /\ wrapping_add_sum(pre, arg, N) <= MAX(ty)
        /\ ret.kind # "Panic"

(***************************************************************************)
(* C5: take_increment returns the value held before the call and leaves    *)
(* the counter one further, wrapping N-1 to 0; consecutive calls return    *)
(* v, v+1, ..., N-1, 0, 1, ... so N consecutive calls return every value   *)
(* of 0..N exactly once and bring the counter back to where it started.    *)
(***************************************************************************)
C5_TakeIncrementCycles ==
    op = "CapNum::take_increment" =>
        /\ ret = Ok(pre)
        /\ into_inner(num) =
               IF into_inner(pre) = N - 1 THEN 0 ELSE into_inner(pre) + 1
        /\ N <= MaxCycle =>
            /\ Len(taken) \in 1..N
            /\ \A i \in 1..Len(taken) : taken[i] = (start + i - 1) % N
            /\ Len(taken) = N =>
                /\ {taken[i] : i \in 1..N} = range(N)
                /\ \A i, j \in 1..N : taken[i] = taken[j] => i = j
                /\ into_inner(num) = start

\* a whole cycle that wrapped from N-1 to 0 in its middle
C5_Witness ==
    /\ op = "CapNum::take_increment"
    /\ N >= 3
    /\ Len(taken) = N
    /\ start = 1
    /\ into_inner(num) = 1

(***************************************************************************)
(* C6: for N > 0 and any primitive v, new_wrap(v) succeeds and its inner   *)
(* value is v mod N: the r in [0, N) with v = q * N + r.                   *)
(***************************************************************************)
C6_NewWrapIsModN ==
    (op = "CapNum::new_wrap" /\ N > 0) =>
        /\ ret.kind = "Ok"
        /\ num = ret.val
        /\ into_inner(ret.val) \in range(N)
        /\ \E q \in 0..arg : arg = q * N + into_inner(ret.val)

\* the crate's test: CapU8::<10>::new_wrap(29) is 9
C6_Witness ==
    /\ op = "CapNum::new_wrap"
    /\ N = 10
    /\ arg = 29
    /\ ret = Ok(CapNum(9))

(***************************************************************************)
(* C7: after any sequence of try_from, push, push_str, pop, truncate,      *)
(* clear and deserialization on a CapString<N>, the buffer's byte length   *)
(* is at most N, also right after a rejected push or push_str.             *)
(***************************************************************************)
C7_StringLenAtMostCap == str_len(buf) <= N

\* a multi-byte char rejected by a buffer that still had a free byte
C7_Witness ==
    /\ op = "CapString::push"
    /\ ret.kind = "Err"
    /\ str_len(buf) = N - 1
    /\ len_utf8(arg) > 1

(***************************************************************************)
(* C8: push_str(s) on a buffer old returns Ok and leaves old ++ s when     *)
(* len(old) + len(s) <= N, and otherwise returns Err and leaves the        *)
(* buffer equal to old, with nothing of s appended.                        *)
(***************************************************************************)
C8_PushStrAllOrNothing ==
    op = "CapString::push_str" =>
        IF str_len(pre) + str_len(arg) <= N
        THEN ret = Ok(Unit) /\ buf = pre \o arg
        ELSE ret.kind = "Err" /\ buf = pre

\* rejected although a prefix of s would have fitted
C8_Witness ==
    /\ op = "CapString::push_str"
    /\ ret.kind = "Err"
    /\ Len(arg) > 1
    /\ str_len(pre) + len_utf8(Head(arg)) <= N
    /\ buf = pre

(***************************************************************************)
(* C9: push(ch) returns Ok and appends ch iff byte_length(buffer) +        *)
(* utf8_len(ch) <= N; otherwise it returns an error that carries the       *)
(* attempted length and leaves the buffer unchanged.                       *)
(***************************************************************************)
C9_PushChecksUtf8Len ==
    op = "CapString::push" =>
        IF str_len(pre) + len_utf8(arg) <= N
        THEN ret = Ok(Unit) /\ buf = Append(pre, arg)
        ELSE /\ ret.kind = "Err"
             /\ ret.err.len = str_len(pre) + len_utf8(arg)
             /\ buf = pre

(***************************************************************************)
(* C10: CapVec::push(e) with length < N returns None, the length grows by  *)
(* one and e is the last element after the unchanged earlier ones; with    *)
(* length = N it returns Some(e) and contents and length are unchanged.    *)
(***************************************************************************)
C10_VecPush ==
    op = "CapVec::push" =>
        IF Len(pre) < N
        THEN /\ ret = None
             /\ Len(buf) = Len(pre) + 1
             /\ buf[Len(buf)] = arg
             /\ SubSeq(buf, 1, Len(pre)) = pre
        ELSE /\ Len(pre) = N
             /\ ret = Some(arg)
             /\ buf = pre

(***************************************************************************)
(* C11: after any sequence of default, try_from, push, pop, clear,         *)
(* truncate and deserialization on a CapVec<N, T>, len() is in 0..=N.      *)
(***************************************************************************)
C11_VecLenAtMostCap == Len(buf) \in 0..N

\* a source of exactly N elements was deserialized into the CapVec
C11_Witness ==
    /\ op = "CapVec::deserialize"
    /\ ret.kind = "Ok"
    /\ N > 0
    /\ Len(buf) = N

(***************************************************************************)
(* C13: CapVec deserialization consumes the elements one at a time; a      *)
(* source of more than N elements fails with an invalid-length error on    *)
(* receiving element N + 1, the accumulator never holds more than N        *)
(* elements and nothing after element N + 1 is requested; a source of at   *)
(* most N elements is accepted with its elements in order.                 *)
(***************************************************************************)
C13_ElementsValid(src, n) ==
    \A i \in 1..Min(Len(src), n + 1) : src[i] \in Elems

C13_VisitSeqStopsAtCap ==
    /\ de # <<>> =>
        /\ Len(de[1].values) <= N
        /\ de[1].asked <= N
        /\ de[1].values = SubSeq(de[1].src, 1, de[1].asked)
    /\ (op = "CapVec::deserialize" /\ C13_ElementsValid(arg.src, N)) =>
        IF Len(arg.src) > N
        THEN /\ ret.kind = "Err"
             /\ "invalid_length" \in DOMAIN ret.err
             /\ arg.asked = N + 1
             /\ buf = pre
        ELSE /\ ret = Ok(Unit)
             /\ arg.asked = Len(arg.src) + 1
             /\ buf = arg.src

\* a source with elements beyond element N + 1 was cut off
C13_Witness ==
    /\ op = "CapVec::deserialize"
    /\ N > 0
    /\ Len(arg.src) >= N + 2
    /\ ret.kind = "Err"
    /\ "invalid_length" \in DOMAIN ret.err
    /\ arg.asked = N + 1

(***************************************************************************)
(* C12: CapString::try_from(s) succeeds iff byte_length(s) <= N and        *)
(* CapVec::try_from(l) succeeds iff length(l) <= N, length exactly N       *)
(* included; on success the content is the input, on failure the error     *)
(* carries the input's length.                                             *)
(***************************************************************************)
C12_ContainerTryFrom ==
    /\ op = "CapString::try_from" =>
        /\ ret.kind \in {"Ok", "Err"}
        /\ (ret.kind = "Ok") <=> (str_len(arg.s) <= N)
        /\ ret.kind = "Ok" => buf = arg.s
        /\ ret.kind = "Err" => ret.err.len = str_len(arg.s) /\ buf = pre
    /\ op = "CapVec::try_from" =>
        /\ ret.kind \in {"Ok", "Err"}
        /\ (ret.kind = "Ok") <=> (Len(arg.v) <= N)
        /\ ret.kind = "Ok" => buf = arg.v
        /\ ret.kind = "Err" => ret.err.len = Len(arg.v) /\ buf = pre

\* a Vec of exactly N elements was accepted
C12_Witness ==
    /\ op = "CapVec::try_from"
    /\ N > 0
    /\ Len(arg.v) = N
    /\ ret.kind = "Ok"
    /\ buf = arg.v

(***************************************************************************)
(* C14: serializing Cap<N>(v) emits only v; deserializing that output      *)
(* into Cap<M> succeeds iff v < M and yields v; for M = N, and for         *)
(* CapString and CapVec with their own N, serialize then deserialize       *)
(* yields a value equal to the original.                                   *)
(***************************************************************************)
C14_RoundTrip ==
    /\ op = "CapNum::serialize" =>
        ret = Ok([width |-> ty, val |-> into_inner(pre)])
    /\ op = "CapNum::round_trip" =>
        /\ arg.token.val = into_inner(pre)
        /\ ret.kind \in {"Ok", "Err"}
        /\ (ret.kind = "Ok") <=> (into_inner(pre) < arg.M)
        /\ ret.kind = "Ok" => into_inner(ret.val) = into_inner(pre)
        /\ arg.M = N => ret = Ok(pre)
    /\ op = "CapString::serialize" => ret = Ok([width |-> "str", val |-> pre])
    /\ op = "CapString::round_trip" => ret = Ok(Unit) /\ buf = pre
    /\ op = "CapVec::serialize" => ret.val.val = pre
    /\ op = "CapVec::round_trip" => ret = Ok(Unit) /\ buf = pre

\* Cap<5>(4) does not deserialize into Cap<4>
C14_Witness ==
    /\ op = "CapNum::round_trip"
    /\ N = 5
    /\ arg.M = 4
    /\ into_inner(pre) = 4
    /\ ret.kind = "Err"

(***************************************************************************)
(* C15: numeric deserialization accepts a token of any width (u8, u16,     *)
(* u32, u64) iff its value fits the target primitive and is < N, and       *)
(* returns exactly that value; a value that does not fit is rejected       *)
(* with an error, never narrowed lossily before the comparison.            *)
(***************************************************************************)
C15_DeserializeAnyWidth ==
    op = "CapNum::deserialize" =>
        /\ ret.kind \in {"Ok", "Err"}
        /\ (ret.kind = "Ok") <=> (fits(arg.val, ty) /\ arg.val < N)
        /\ ret.kind = "Ok" => ret.val = CapNum(arg.val) /\ num = ret.val

\* 256 arrives as a u64 at the u8 visitor of cap_u8.rs, whose cap it
\* would pass if it were narrowed to 0
C15_Witness ==
    /\ op = "CapNum::deserialize"
    /\ file = "cap_u8.rs"
    /\ N > 0
    /\ arg = Token("u64", 256)
    /\ ret.kind = "Err"

(***************************************************************************)
(* C16: every range or length error returned by a validating constructor   *)
(* or mutator (CapError, CapStringLengthError, CapVecLengthError)          *)
(* carries the attempted value or length and the bound N.                  *)
(***************************************************************************)
C16_Validating ==
    {"CapNum::try_from", "CapString::try_from", "CapString::push",
     "CapString::push_str", "CapVec::try_from"}

C16_Attempted ==
    CASE op = "CapNum::try_from" -> arg
      [] op = "CapString::try_from" -> str_len(arg.s)
      [] op = "CapString::push" -> str_len(pre) + len_utf8(arg)
      [] op = "CapString::push_str" -> str_len(pre) + str_len(arg)
      [] op = "CapVec::try_from" -> Len(arg.v)

C16_ErrorCarriesAttemptAndBound ==
    (op \in C16_Validating /\ ret.kind = "Err") =>
        /\ ret.err.N = N
        /\ \E k \in DOMAIN ret.err \ {"N"} : ret.err[k] = C16_Attempted

\* C16 as amended: the length errors of CapString and CapVec carry the
\* attempted length and the bound N; CapError carries the bound N only.
C16_LengthErrorsCarryAttempt ==
    (op \in C16_Validating /\ ret.kind = "Err") =>
        IF op = "CapNum::try_from"
        THEN ret.err = [N |-> N]
        ELSE ret.err = [N |-> N, len |-> C16_Attempted]

\* a rejected number: nothing in the error tells 7 from any other value
C16_Witness ==
    /\ op = "CapNum::try_from"
    /\ N = 5
    /\ arg = 7
    /\ ret.kind = "Err"
    /\ DOMAIN ret.err = {"N"}

(***************************************************************************)
(* C17: deserialization applies the constructor's validation: for each     *)
(* capped type and each payload representable in the underlying type,      *)
(* deserialize accepts iff try_from accepts, and then both give the same   *)
(* value.                                                                  *)
(***************************************************************************)
C17_DeserializeAsTryFrom ==
    /\ (op = "CapNum::deserialize" /\ fits(arg.val, ty)) =>
        LET t == try_from_in(file, arg.val, N)
        IN  /\ ret.kind = t.kind
            /\ ret.kind = "Ok" => ret.val = t.val
    /\ op = "CapString::visit_str" =>
        LET t == CapString_try_from(String(arg, str_len(arg)), N)
        IN  /\ ret.kind = t.res.kind
            /\ ret.kind = "Ok" => buf = t.s
    /\ op = "CapString::visit_string" =>
        LET t == CapString_try_from(arg, N)
        IN  /\ ret.kind = t.res.kind
            /\ ret.kind = "Ok" => buf = t.s /\ capacity = t.capacity
    /\ (op = "CapVec::deserialize" /\ \A i \in DOMAIN arg.src :
                                          arg.src[i] \in Elems) =>
        LET t == CapVec_try_from(Vec(arg.src, Len(arg.src)), N)
        IN  /\ ret.kind = t.res.kind
            /\ ret.kind = "Ok" => buf = t.v

\* u64.rs: the value N itself passes visit_u64 as it passes try_from
C17_Witness ==
    /\ op = "CapNum::deserialize"
    /\ file = "u64.rs"
    /\ N > 0
    /\ arg.val = N
    /\ ret = Ok(CapNum(N))

(***************************************************************************)
(* C18: with cap N = 0 every call new_wrap(v) aborts with a division by    *)
(* zero; it returns neither a capped value nor a recoverable error.        *)
(***************************************************************************)
C18_NewWrapZeroCapPanics ==
    (op = "CapNum::new_wrap" /\ N = 0) =>
        /\ ret.kind = "Panic"
        /\ num = pre

C18_Witness ==
    /\ op = "CapNum::new_wrap"
    /\ N = 0
    /\ arg > 0
    /\ ret.kind = "Panic"
    /\ num = Nil

(***************************************************************************)
(* C19: every TryFrom and every deserialization visitor of a capped        *)
(* number in the source, CapU64 of u64.rs and CapU8 of u8.rs included,     *)
(* rejects the value N itself.                                             *)
(***************************************************************************)
C19_CapItselfRejected ==
    /\ (op = "CapNum::try_from" /\ arg = N) => ret.kind = "Err"
    /\ (op = "CapNum::deserialize" /\ arg.val = N) => ret.kind = "Err"

(***************************************************************************)
(* C20: the assertions at the top of CapString::push and CapVec::push      *)
(* hold in every state safe operations reach: whenever push is called,     *)
(* the capacity of the backing buffer is <= N.                             *)
(***************************************************************************)
C20_CapacityWithinCap ==
    /\ capacity <= N
    /\ op \in {"CapString::push", "CapVec::push"} => ret.kind # "Panic"

(***************************************************************************)
(* C21: every invalid-length deserialization error of CapString and        *)
(* CapVec reports the received length that violated the bound, a length    *)
(* strictly greater than N.                                                *)
(***************************************************************************)
C21_ReportedLengthAboveCap ==
    ( /\ op \in {"CapString::visit_str", "CapString::visit_string",
                 "CapVec::deserialize"}
      /\ ret.kind = "Err"
      /\ "invalid_length" \in DOMAIN ret.err ) =>
        ret.err.invalid_length > N

(***************************************************************************)
(* C22: pop, clear and truncate of CapVec and CapString pass through to    *)
(* the collection and always succeed: pop removes and returns the last     *)
(* element or char, or returns None and changes nothing when empty;        *)
(* truncate(len) keeps exactly the first min(old_len, len) elements or     *)
(* bytes; clear leaves the container empty.                                *)
(***************************************************************************)
C22_PopAndClear ==
    /\ op \in {"CapVec::pop", "CapString::pop"} =>
        IF pre = <<>>
        THEN ret = None /\ buf = pre
        ELSE ret = Some(pre[Len(pre)]) /\ buf = SubSeq(pre, 1, Len(pre) - 1)
    /\ op \in {"CapVec::clear", "CapString::clear"} =>
        ret = Void /\ buf = <<>>
    /\ op = "CapVec::truncate" =>
        /\ ret = Void
        /\ buf = SubSeq(pre, 1, Min(Len(pre), arg))

C22_Passthrough ==
    /\ C22_PopAndClear
    /\ op = "CapString::truncate" =>
        /\ ret = Void
        /\ str_len(buf) = Min(str_len(pre), arg)
        /\ Len(buf) <= Len(pre)
        /\ buf = SubSeq(pre, 1, Len(buf))

\* C22 as amended: CapString::truncate(new_len) does so when new_len is past
\* the end or on a char boundary, and panics, changing nothing, when new_len
\* falls inside a char.
C22_PassthroughWithBoundaryPanic ==
    /\ C22_PopAndClear
    /\ op = "CapString::truncate" =>
        IF arg < str_len(pre) /\
           \A k \in 0..Len(pre) : str_len(SubSeq(pre, 1, k)) # arg
        THEN ret.kind = "Panic" /\ buf = pre
        ELSE /\ ret = Void
             /\ str_len(buf) = Min(str_len(pre), arg)
             /\ Len(buf) <= Len(pre)
             /\ buf = SubSeq(pre, 1, Len(buf))

\* truncate(1) on a string that starts with a char of two or more bytes
C22_Witness ==
    /\ op = "CapString::truncate"
    /\ arg = 1
    /\ pre # <<>>
    /\ len_utf8(pre[1]) > 1
    /\ ret.kind = "Panic"
    /\ buf = pre

(***************************************************************************)
(* C23: a capped number and a bare primitive are equal by inner value      *)
(* only, from either side: (c == p) = (p == c) = (c.into_inner() == p);    *)
(* two capped numbers of the same N are equal and ordered exactly as       *)
(* their inner values.                                                     *)
(***************************************************************************)
C23_EqualityByInnerValue ==
    /\ op = "CapNum::eq" =>
        /\ ret.cap_prim <=> ret.prim_cap
        /\ ret.cap_prim <=> (into_inner(pre) = arg)
    /\ op = "CapNum::cmp" =>
        /\ ret.eq <=> (into_inner(pre) = into_inner(arg))
        /\ (ret.ord = "Less") <=> (into_inner(pre) < into_inner(arg))
        /\ (ret.ord = "Equal") <=> (into_inner(pre) = into_inner(arg))
        /\ (ret.ord = "Greater") <=> (into_inner(pre) > into_inner(arg))

\* the comparison of tests::inner_eq: CapU8::<5>::new_wrap(2) and 2
C23_Witness ==
    /\ op = "CapNum::eq"
    /\ N = 5
    /\ pre = CapNum(2)
    /\ arg = 2
    /\ ret.cap_prim
    /\ ret.prim_cap

(***************************************************************************)
(* C24: test manipulate_string_ok keeps the safety obligation of get_mut:  *)
(* after every statement of the test, the get_mut statement included,      *)
(* the byte length of the CapString<5>'s buffer is <= 5.                   *)
(***************************************************************************)
C24_TestKeepsCap ==
    steps > 0 => str_len(buf) <= TEST_CAP

(***************************************************************************)
(* C25: in the macro-generated deserializers of num.rs the conversion      *)
(* under expect("v less than N") never fails: v < N compared as u64        *)
(* implies that v fits the target primitive, so visit_u64 returns Ok or    *)
(* Err and never panics.                                                   *)
(***************************************************************************)
C25_ExpectNeverFails ==
    (file = "num.rs" /\ op \in {"CapNum::deserialize", "CapNum::round_trip"})
        => /\ ret.kind # "Panic"
           /\ op = "CapNum::deserialize" =>
                /\ arg.val < N => fits(arg.val, ty)
                /\ arg.val < N => ret = Ok(CapNum(arg.val))

\* the largest u8 a CapU8 can hold arrives and is narrowed
C25_Witness ==
    /\ file = "num.rs"
    /\ op = "CapNum::deserialize"
    /\ ty = "u8"
    /\ N = MAX("u8")
    /\ arg.val = MAX("u8") - 1
    /\ ret = Ok(CapNum(MAX("u8") - 1))

(***************************************************************************)
(* C26: the two deserializers of CapU8 agree: for every cap N and every    *)
(* input of width u8, u16, u32 or u64, the visitor of cap_u8.rs and the    *)
(* visit_u64 of num.rs both accept, with the same inner value, or both     *)
(* reject.                                                                 *)
(***************************************************************************)
C26_CapU8VisitorsAgree ==
    (op = "CapNum::deserialize" /\ ty = "u8" /\ file \in {"num.rs", "cap_u8.rs"})
        => LET other == IF file = "num.rs" THEN "cap_u8.rs" ELSE "num.rs"
               r == visit_num(other, ty, arg.width, arg.val, N)
           IN  /\ ret.kind \in {"Ok", "Err"}
               /\ ret.kind = r.kind
               /\ ret.kind = "Ok" => ret.val = r.val

\* 256 in a u32 token: refused by the comparison in num.rs and by try_into
\* in cap_u8.rs
C26_Witness ==
    /\ op = "CapNum::deserialize"
    /\ ty = "u8"
    /\ file = "num.rs"
    /\ N = MAX("u8")
    /\ arg = Token("u32", MAX("u8") + 1)
    /\ ret.kind = "Err"
    /\ visit_num("cap_u8.rs", ty, arg.width, arg.val, N).kind = "Err"

(***************************************************************************)
(* C27: push followed by pop restores the container: on a CapVec of        *)
(* length < N, push(e) returning None and then pop() returns Some(e) and   *)
(* leaves the contents as before the push; on a CapString, a successful    *)
(* push(ch) and then pop() returns Some(ch) and restores the contents.     *)
(***************************************************************************)
C27_PushPopRestores ==
    /\ op = "CapVec::push; pop" =>
        /\ Len(pre) < N
        /\ ret = Some(arg)
        /\ buf = pre
    /\ op = "CapString::push; pop" =>
        /\ str_len(pre) + len_utf8(arg) <= N
        /\ ret = Some(arg)
        /\ buf = pre

\* a 2 pushed behind a 1 comes back, and the 1 stays
C27_Witness ==
    /\ op = "CapVec::push; pop"
    /\ pre = <<1>>
    /\ arg = 2
    /\ ret = Some(2)
    /\ buf = <<1>>

====
